---- MODULE Spec2Model ----
(***************************************************************************)
(* Model of src/main.py: the Mercado Livre offer relay.                    *)
(*                                                                         *)
(* POST /run-offers (run_offers) calls run_once_logic, which loads the     *)
(* sent-id file, collects and ranks the offers of every keyword, sends the *)
(* first OFFERS_PER_RUN offers that are not in the loaded set, and         *)
(* overwrites the file.  The endpoint is a synchronous FastAPI handler, so *)
(* two requests can be served by two worker threads at once, with no lock: *)
(* the steps of two runs interleave, the open that truncates the file and  *)
(* the dump that writes it included.  SpecSerial is the program behind a   *)
(* caller that never issues a request while another one is running, Spec   *)
(* is the program as it is deployed.                                       *)
(*                                                                         *)
(* Encodings.  Prices are whole numbers.  A discount is an integer number  *)
(* of hundredths of a percent (33.33 is 3333), computed in the double      *)
(* arithmetic of line 90.  A JSON value that may be null is None or        *)
(* Some(v) where null and a value behave differently ("title", "price",    *)
(* "permalink", the "results" of a search).  An absent/None                *)
(* "original_price" or "sold_quantity" is 0 and an absent/None "id" is "": *)
(* the code reads these only through truthiness tests (lines 89, 105, 111, *)
(* 158, 164), which None, 0 and "" answer alike.  A title is a sequence of *)
(* characters.  "thumbnail" and the text of the message are left out:      *)
(* nothing that the run decides reads them.  The text of an exception is   *)
(* the text str(e) gives.  The sent-id file is the characters it holds;    *)
(* a write can stop after part of its text, and a read parses what is      *)
(* there.                                                                  *)
(***************************************************************************)
EXTENDS Integers, Sequences, FiniteSets, TLC

VARIABLES
    TELEGRAM_BOT_TOKEN, \* module global, line 17: "" when not configured
    OFFERS_PER_RUN,     \* module global, line 38
    file,               \* SENT_IDS_FILE on disk
    pc,                 \* per worker: where its request is
    sent_ids,           \* per worker: run_once_logic's local sent_ids
    all_items,          \* per worker: collect_best_offers' all_items, in insertion order
    offers,             \* per worker: the list collect_best_offers returned
    new_offers,         \* per worker: run_once_logic's local new_offers
    to_send,            \* per worker: run_once_logic's local to_send
    titles,             \* per worker: run_once_logic's local titles
    sent_count,         \* per worker: run_once_logic's local sent_count
    opened,             \* per worker: its save_sent_ids holds the file open for writing
    response,           \* per worker: the JSONResponse of run_offers
    loaded,             \* history, per worker: what load_sent_ids returned ({} if it raised)
    fetched,            \* history, per worker: the outcome of each keyword's search
    queried,            \* history, per worker: the keywords searched, in order
    collect_error,      \* history, per worker: str(e) of what collect_best_offers raised, "" if it returned
    log,                \* history, per worker: the calls of send_telegram_message
    path,               \* history, per worker: the phases the run went through
    writes,             \* history, per worker: calls of save_sent_ids that have returned
    save_result,        \* history, per worker: how its save_sent_ids ended
    file_at_start,      \* history, per worker: the file when the run began
    runs,               \* history: requests accepted so far
    overlapped,         \* history: some request began while another was running
    raised,             \* history: an exception ended a run, which was answered 500
    swallowed,          \* history: load_sent_ids or save_sent_ids swallowed an exception
    sent_ever,          \* history: ids some run got a messaging-API response for
    resent,             \* history: ids sent again after they were sent
    recorded,           \* history: ids a run sent and then wrote to the file
    aborted_sent,       \* history: ids sent by runs a raising send aborted, since the last run that completed
    nonok_before        \* history: ids whose send, in a run that has ended, got a response that was not ok
                        \* (the last two are kept for serialized runs only: {} once runs overlapped)

vars == <<TELEGRAM_BOT_TOKEN, OFFERS_PER_RUN, file, pc, sent_ids, all_items, offers,
          new_offers, to_send, titles, sent_count, opened, response, loaded, fetched,
          queried, collect_error, log, path, writes, save_result, file_at_start, runs,
          overlapped, raised, swallowed, sent_ever, resent, recorded, aborted_sent,
          nonok_before>>

locals == <<sent_ids, all_items, offers, new_offers, to_send, titles, sent_count>>

(***************************************************************************)
(* Bounds and configuration                                                *)
(***************************************************************************)
MaxRuns == 2

Workers == {1, 2}

KEYWORDS == <<"smartphone", "notebook">>

MIN_DISCOUNT_PERCENT == 15

TitleLimit == 120

TokenValues == {"", "123:abc"}

\* The batch sizes of the runs: int(os.getenv(...)) (line 38) accepts every integer.
\* The default is 10; with three ids that can be sent it behaves as any size above 2.
\* A negative size counts from the end of the list: -3 leaves the first of four.
BatchSizes == {-3, 0, 1, 2}

Min(a, b) == IF a <= b THEN a ELSE b

Max(a, b) == IF a >= b THEN a ELSE b

\* A JSON value that may be null.
None == <<>>

Some(v) == <<v>>

IsNone(x) == Len(x) = 0

Value(x) == x[1]

(***************************************************************************)
(* The marketplace: the raw items a search may return.                     *)
(***************************************************************************)
RawItem(id, title, price, original_price, sold_quantity, permalink) ==
    [id |-> id, title |-> title, price |-> price, original_price |-> original_price,
     sold_quantity |-> sold_quantity, permalink |-> permalink]

iA == RawItem("A", Some(<<"a">>), Some(2), 3, 1, Some("http://x/a"))

iB == RawItem("B", Some(<<"b">>), Some(80), 100, 50, Some("http://x/b"))

iC == RawItem("C", Some(<<"c">>), Some(80), 100, 5, Some("http://x/c"))

iC2 == RawItem("C", Some(<<"c", "2">>), Some(50), 100, 0, Some("http://x/c?x=1"))

\* No permalink: build_message raises on it.
iK == RawItem("K", Some(<<"k">>), Some(80), 100, 0, None)

iE == RawItem("E", Some(<<"e">>), Some(90), 90, 9, Some("http://x/e"))

\* No id, no price, no original price.
iN == RawItem("", Some(<<"n">>), None, 0, 0, Some("http://x/n"))

\* 14.995 exactly, which line 90 computes as 14.99: below the threshold.
iT == RawItem("T", Some(<<"t">>), Some(17001), 20000, 7, Some("http://x/t"))

\* No price with an original price: compute_discount raises on it.
iP == RawItem("P", Some(<<"p">>), None, 100, 0, Some("http://x/p"))

\* A null title: line 115 raises on it.
iL == RawItem("L", None, Some(50), 100, 0, Some("http://x/l"))

RawItems == {iA, iB, iC, iC2, iK, iE, iN, iT, iP, iL}

\* What a search returns in the runs of the whole program.
Listings == { <<iC, iB, iA>>, <<iC2, iT, iN>>, <<iB, iC, iK>> }

\* A search raises (ok is FALSE), or answers with "results": null or a list.
FetchOutcomes ==
    {[ok |-> FALSE, results |-> None], [ok |-> TRUE, results |-> None]}
        \cup {[ok |-> TRUE, results |-> Some(r)] : r \in Listings}

(***************************************************************************)
(* Double arithmetic                                                       *)
(***************************************************************************)
\* The significand of a double has 53 bits.
Precision == 53

\* A natural number beyond the range of the integers is a sequence of limbs of
\* LimbBits bits, the most significant first.
LimbBits == 10

Base == 2^LimbBits

RECURSIVE LimbsValue(_)
LimbsValue(a) ==
    IF Len(a) = 0 THEN 0 ELSE Base * LimbsValue(SubSeq(a, 1, Len(a) - 1)) + a[Len(a)]

RECURSIVE NatLimbs(_)
NatLimbs(n) == IF n = 0 THEN <<>> ELSE Append(NatLimbs(n \div Base), n % Base)

RECURSIVE ZeroLimbs(_)
ZeroLimbs(n) == IF n <= 0 THEN <<>> ELSE Append(ZeroLimbs(n - 1), 0)

\* The number of bits of a limb (0 for zero).
LimbLen(v) == IF v = 0 THEN 0 ELSE CHOOSE b \in 1..LimbBits : 2^(b - 1) <= v /\ v < 2^b

\* The number of bits of a (0 for zero).
RECURSIVE BitLen(_)
BitLen(a) ==
    IF Len(a) = 0 THEN 0
    ELSE IF a[1] = 0 THEN BitLen(Tail(a))
    ELSE (Len(a) - 1) * LimbBits + LimbLen(a[1])

\* a * c + carry, for small c and carry.
RECURSIVE LimbsTimes(_, _, _)
LimbsTimes(a, c, carry) ==
    IF Len(a) = 0 THEN NatLimbs(carry)
    ELSE LET v == a[Len(a)] * c + carry
         IN  Append(LimbsTimes(SubSeq(a, 1, Len(a) - 1), c, v \div Base), v % Base)

\* q + 1 when the fraction cut off q is above one half (half and rest), or is one half
\* (half) and q is odd; q otherwise: round to nearest, ties to even.
RoundUp(q, half, rest) ==
    IF half /\ (rest \/ q[Len(q)] % 2 = 1) THEN LimbsTimes(q, 1, 1) ELSE q

\* The first n limbs of p without their last k1 bits (1 <= k1 <= LimbBits).
ShiftRight(p, n, k1) ==
    [i \in 1..n |->
        (IF i = 1 THEN 0 ELSE p[i - 1] % 2^k1) * 2^(LimbBits - k1) + p[i] \div 2^k1]

\* p without its last k bits, rounded: the bits go from the last k1 bits of limb n on.
RoundAt(p, n, k1, sticky) ==
    RoundUp(ShiftRight(p, n, k1),
            p[n] % 2^k1 >= 2^(k1 - 1),
            sticky \/ p[n] % 2^(k1 - 1) # 0 \/ \E i \in (n + 1)..Len(p) : p[i] # 0)

\* (a, plus a fraction that is nonzero iff sticky) / 2^k for k >= 1, rounded to the
\* nearest integer, ties to even.
RoundShift(a, k, sticky) ==
    RoundAt(ZeroLimbs((k - 1) \div LimbBits + 1 - Len(a)) \o a,
            Max(Len(a), (k - 1) \div LimbBits + 1) - (k - 1) \div LimbBits,
            k - ((k - 1) \div LimbBits) * LimbBits,
            sticky)

\* The double nearest to (a, plus a fraction that is nonzero iff sticky) * 2^e, for a of
\* more than Precision bits: its significand m and the exponent e of m's last bit.
ToDouble(a, sticky, e) ==
    [m |-> RoundShift(a, BitLen(a) - Precision, sticky), e |-> e + BitLen(a) - Precision]

\* Long division: q holds the limbs of the quotient down to the f-th after the point
\* and r is the remainder; once q has more than Precision bits it is rounded.
RECURSIVE DivLimbs(_, _, _, _)
DivLimbs(q, r, den, f) ==
    IF BitLen(q) > Precision THEN ToDouble(q, r # 0, 0 - f * LimbBits)
    ELSE DivLimbs(Append(q, (r * Base) \div den), (r * Base) % den, den, f + 1)

\* num / den as the true division of two ints gives it: correctly rounded.
FloatDiv(num, den) == DivLimbs(NatLimbs(num \div den), num % den, den, 0)

\* x * 100 in double arithmetic.
FloatTimes100(x) == ToDouble(LimbsTimes(x.m, 100, 0), FALSE, x.e)

\* round(x, 2), in hundredths: the hundredth nearest to the exact value of the double
\* x, ties to even.
FloatRound2(x) == LimbsValue(RoundShift(LimbsTimes(x.m, 100, 0), 0 - x.e, FALSE))

(***************************************************************************)
(* Pure functions                                                          *)
(***************************************************************************)
\* Python truthiness of the configured token (line 134: `not TELEGRAM_BOT_TOKEN`).
Truthy(s) == s # ""

\* What a call gives: a value, or an exception with its text.
Return(v) == [error |-> "", value |-> v]

Raise(text) == [error |-> text, value |-> 0]

\* round(num / den * 100, 2) of line 90, in hundredths (0 < num, 0 < den).
RoundHundredths(num, den) == FloatRound2(FloatTimes100(FloatDiv(num, den)))

\* Lines 86-91.  `original_price > price` raises TypeError when price is None.
compute_discount(item) ==
    IF item.original_price # 0
    THEN IF IsNone(item.price)
         THEN Raise("'>' not supported between instances of 'int' and 'NoneType'")
         ELSE IF item.original_price > Value(item.price)
              THEN Return(RoundHundredths(item.original_price - Value(item.price),
                                          item.original_price))
              ELSE Return(0)
    ELSE Return(0)

\* compute_discount of the marketplace's items, computed once.
Discounts == [item \in RawItems |-> compute_discount(item)]

DiscountOf(item) == Discounts[item]

\* item.get("title", "")[:120]; slicing None raises TypeError.
TruncTitle(t) ==
    IF IsNone(t) THEN Raise("'NoneType' object is not subscriptable")
    ELSE Return(SubSeq(Value(t), 1, Min(Len(Value(t)), TitleLimit)))

\* The exception of the first of two calls that raised, "" if neither did.
FirstError(first, second) == IF first.error # "" THEN first.error ELSE second.error

\* The exception lines 110-122 raise on the item, "" if none.
ItemError(item) == FirstError(DiscountOf(item), TruncTitle(item.title))

\* The dictionary stored in all_items[item_id] (lines 110-122).
MakeOffer(item) ==
    [id |-> item.id, title |-> TruncTitle(item.title).value, price |-> item.price,
     original_price |-> item.original_price, discount |-> DiscountOf(item).value,
     sold_quantity |-> item.sold_quantity, permalink |-> item.permalink]

IdsOf(seq) == {seq[i].id : i \in 1..Len(seq)}

\* Lines 105-108: an item with no id, or with an id already merged, is skipped.
SkipItem(all, item) == item.id = "" \/ item.id \in IdsOf(all)

\* The loop over one keyword's results (lines 103-122): the items merged, and the
\* exception that ended it, "" if none.
RECURSIVE MergeResults(_, _)
MergeResults(all, results) ==
    IF results = <<>> THEN [all_items |-> all, error |-> ""]
    ELSE LET item == Head(results)
         IN  IF SkipItem(all, item) THEN MergeResults(all, Tail(results))
             ELSE IF ItemError(item) # "" THEN [all_items |-> all, error |-> ItemError(item)]
             ELSE MergeResults(Append(all, MakeOffer(item)), Tail(results))

\* The mutant of AfterFetchFailure: a failed search ends the collection.
AfterFetchFailureAborts(k) == Len(KEYWORDS) + 1

\* Lines 99-101: `continue` goes on with the next keyword.
AfterFetchFailure(k) == k + 1

\* The loop over KEYWORDS (lines 96-122) from keyword k on, under the given outcome of
\* every search: the merged items, the keywords searched, and the exception that ended
\* the loop, "" if none.  Only the search is inside the try: iterating "results": null
\* (line 103) and the exceptions of the items are not caught.
RECURSIVE CollectFrom(_, _, _, _)
CollectFrom(k, all, q, outcome) ==
    IF k > Len(KEYWORDS) THEN [all_items |-> all, queried |-> q, error |-> ""]
    ELSE IF ~outcome[k].ok
         THEN CollectFrom(AfterFetchFailure(k), all, Append(q, KEYWORDS[k]), outcome)
    ELSE IF IsNone(outcome[k].results)
         THEN [all_items |-> all, queried |-> Append(q, KEYWORDS[k]),
               error |-> "'NoneType' object is not iterable"]
    ELSE LET m == MergeResults(all, Value(outcome[k].results))
         IN  IF m.error # ""
             THEN [all_items |-> m.all_items, queried |-> Append(q, KEYWORDS[k]),
                   error |-> m.error]
             ELSE CollectFrom(k + 1, m.all_items, Append(q, KEYWORDS[k]), outcome)

\* Line 126: it["discount"] >= MIN_DISCOUNT_PERCENT.
KeepsOffer(it) == it.discount >= MIN_DISCOUNT_PERCENT * 100

Filtered(all) == SelectSeq(all, KeepsOffer)

\* The mutant of KeyLess: the key is the discount alone.
KeyLessIgnoresSold(a, b) == a.discount < b.discount

\* The sort key of line 129, compared as Python compares tuples.
KeyLess(a, b) ==
    \/ a.discount < b.discount
    \/ a.discount = b.discount /\ a.sold_quantity < b.sold_quantity

\* list.sort(key, reverse=True) is stable: x goes after every element whose key is not
\* below its own.
RECURSIVE InsertDesc(_, _)
InsertDesc(sorted, x) ==
    IF sorted = <<>> THEN <<x>>
    ELSE IF KeyLess(Head(sorted), x)
         THEN <<x>> \o sorted
         ELSE <<Head(sorted)>> \o InsertDesc(Tail(sorted), x)

RECURSIVE SortDesc(_)
SortDesc(seq) ==
    IF seq = <<>> THEN <<>>
    ELSE InsertDesc(SortDesc(SubSeq(seq, 1, Len(seq) - 1)), seq[Len(seq)])

\* What collect_best_offers returns for the merged items (lines 124-130).
Ranked(all) == SortDesc(Filtered(all))

\* collect_best_offers (lines 94-130) under the given outcome of every search: the
\* ranked list it returns, or the exception it raises.
collect_best_offers(outcome) ==
    IF CollectFrom(1, <<>>, <<>>, outcome).error # ""
    THEN Raise(CollectFrom(1, <<>>, <<>>, outcome).error)
    ELSE Return(Ranked(CollectFrom(1, <<>>, <<>>, outcome).all_items))

\* What collect_best_offers can give in the runs of the whole program, computed once.
CollectOutcomes ==
    {collect_best_offers(outcome) : outcome \in [1..Len(KEYWORDS) -> FetchOutcomes]}

\* The mutant of NewOffers: the membership test is dropped.
NewOffersUnfiltered(offs, sent) == offs

\* Line 183: [o for o in offers if o["id"] not in sent_ids].
NewOffers(offs, sent) ==
    LET Fresh(o) == o.id \notin sent IN SelectSeq(offs, Fresh)

\* The mutant of PySlice: one item more than the batch size.
PySliceOneMore(seq, n) == SubSeq(seq, 1, Min(n + 1, Len(seq)))

\* seq[:n] (line 189); a negative n counts from the end.
PySlice(seq, n) ==
    IF n >= 0 THEN SubSeq(seq, 1, Min(n, Len(seq)))
    ELSE SubSeq(seq, 1, Max(0, Len(seq) + n))

(***************************************************************************)
(* The sent-id file                                                        *)
(***************************************************************************)
\* The file is absent, or holds bytes, kept as a sequence of characters.  The text of a
\* json.dump that went through whole, over nothing longer, is kept as the id set it
\* holds (kind "json"): list(sent_ids) (line 57) puts the ids in an order of the set's
\* choosing, which no read tells apart, and which is drawn when bytes of another write
\* get mixed with the text.
NoFile == [kind |-> "absent", ids |-> {}, text |-> <<>>]

JsonFile(ids) == [kind |-> "json", ids |-> ids, text |-> <<>>]

Bytes(t) == [kind |-> "bytes", ids |-> {}, text |-> t]

\* The orders list(ids) can have.
Orders(ids) ==
    {o \in [1..Cardinality(ids) -> ids] : \A i, j \in DOMAIN o : i # j => o[i] # o[j]}

\* What json.dump writes before the list: {"ids": [
ListHead == <<"{", "\"", "i", "d", "s", "\"", ":", " ", "[">>

\* The elements of the list, each between quotes, ", " between two.  An id of the
\* catalog is one character, written as it is.
RECURSIVE ListText(_)
ListText(order) ==
    IF order = <<>> THEN <<>>
    ELSE <<"\"", Head(order), "\"">>
            \o (IF Len(order) = 1 THEN <<>> ELSE <<",", " ">>)
            \o ListText(Tail(order))

\* The text of json.dump({"ids": list(ids)}, f) (line 57), the list in the given order.
DumpText(order) == ListHead \o ListText(order) \o <<"]", "}">>

\* Its length, which is that of every order.
JsonLen(ids) == IF ids = {} THEN 11 ELSE 9 + 5 * Cardinality(ids)

\* The texts the file may hold.
Texts(f) ==
    IF f.kind = "json" THEN {DumpText(o) : o \in Orders(f.ids)} ELSE {f.text}

\* json.load of the text from its first element on (line 47): the elements up to ]}
\* and the end of the text, or JSONDecodeError.  The bytes of the file all come from
\* dumps written at offset 0, so an element is one character between quotes and the
\* white space is where json.dump puts it.
RECURSIVE ParseList(_, _)
ParseList(t, i) ==
    IF i + 4 > Len(t) \/ t[i] # "\"" \/ t[i + 1] = "\"" \/ t[i + 2] # "\""
    THEN Raise("JSONDecodeError")
    ELSE IF t[i + 3] = "]"
    THEN IF t[i + 4] = "}" /\ Len(t) = i + 4
         THEN Return({t[i + 1]}) ELSE Raise("JSONDecodeError")
    ELSE IF t[i + 3] = "," /\ t[i + 4] = " "
    THEN IF ParseList(t, i + 5).error # ""
         THEN Raise("JSONDecodeError")
         ELSE Return({t[i + 1]} \cup ParseList(t, i + 5).value)
    ELSE Raise("JSONDecodeError")

\* set(json.load(f).get("ids", [])) (lines 47-48) on the text.
ParseIds(t) ==
    IF Len(t) < 11 \/ SubSeq(t, 1, 9) # ListHead THEN Raise("JSONDecodeError")
    ELSE IF t[10] = "]"
    THEN IF t[11] = "}" /\ Len(t) = 11 THEN Return({}) ELSE Raise("JSONDecodeError")
    ELSE ParseList(t, 10)

\* The file holds a JSON text.
IsJson(f) == f.kind = "json" \/ (f.kind = "bytes" /\ ParseIds(f.text).error = "")

\* The id set a reader gets from the file when its read succeeds; {} when the file is
\* absent or not JSON.
StoredIds(f) ==
    IF f.kind = "json" THEN f.ids
    ELSE IF IsJson(f) THEN ParseIds(f.text).value
    ELSE {}

\* How a read of the file can end (lines 44-51).  exists() (line 44) is outside the
\* try: when the stat behind it fails with an error pathlib does not take for an
\* absent file (EACCES, EIO, ENAMETOOLONG), the exception leaves load_sent_ids
\* ("stat_failed"), whatever the file holds.  Otherwise exists() is false ("ok",
\* nothing is read); or the text is loaded, or opening or reading it raises; json.load
\* raises on what is not JSON.  Lines 49-50 swallow every exception of the try.
LoadOutcomes(f) ==
    {"stat_failed"} \cup
        (IF f.kind = "absent" THEN {"ok"}
         ELSE IF IsJson(f) THEN {"ok", "error"}
         ELSE {"error"})

\* str(e) of the exception of the stat, for the default file name of line 40.
StatErrorText == "[Errno 13] Permission denied: 'sent_offers.json'"

\* load_sent_ids (lines 43-51): the set it returns, or the exception it raises.
load_sent_ids(f, outcome) ==
    IF outcome = "stat_failed" THEN Raise(StatErrorText)
    ELSE IF outcome = "ok" THEN Return(StoredIds(f))
    ELSE Return({})

\* How open("w") can end (line 56): the file is open and empty, or open raises.
OpenOutcomes == {"ok", "open_failed"}

\* The byte counts at which a write that fails is cut short, for a text of n bytes:
\* every count below n (a full disk, a file size limit).
CutPoints(n) == 0..(n - 1)

\* How the dump and the close of the `with` can end (line 57), for a text of n bytes:
\* the text is written, or an exception is raised when `written` bytes of it have
\* reached the file.  save_sent_ids swallows every exception (lines 58-59).
DumpOutcomes(n) ==
    {[result |-> "ok", written |-> n]}
        \cup {[result |-> "write_failed", written |-> k] : k \in CutPoints(n)}

\* SENT_IDS_FILE.open("w") (line 56) truncates the file.
open_w(f, outcome) == IF outcome = "ok" THEN Bytes(<<>>) ELSE f

\* k bytes of the text new written at offset 0 over the text old.
Overlay(new, k, old) == SubSeq(new, 1, k) \o SubSeq(old, k + 1, Len(old))

\* The file after k bytes of new went over old, f being the file before.
Written(f, ids, new, k, old) ==
    IF k = Len(new) /\ Len(old) <= k THEN JsonFile(ids)
    ELSE IF Overlay(new, k, old) = old THEN f
    ELSE Bytes(Overlay(new, k, old))

\* json.dump and the close that flushes it (line 57): the text goes to the file at
\* offset 0 of the writer's own handle, over whatever the file holds by then.  Bytes
\* another writer put beyond the bytes written stay.  The files it can leave.
json_dump(f, ids, outcome) ==
    {Written(f, ids, DumpText(o), outcome.written, old) :
        o \in Orders(ids), old \in Texts(f)}

(***************************************************************************)
(* Sending                                                                 *)
(***************************************************************************)
\* build_message (lines 150-175) and build_affiliate_link (line 81): the exception it
\* raises on the item, "" if none.  `"?" in permalink` raises on None, and so does the
\* format of a price that is None.
BuildError(item) ==
    IF IsNone(item.permalink) THEN "argument of type 'NoneType' is not iterable"
    ELSE IF IsNone(item.price) THEN "unsupported format string passed to NoneType.__format__"
    ELSE ""

\* The mutant of SendOutcomes: a missing token is not checked.
SendOutcomesUnchecked(token) == {"ok", "not_ok", "raised"}

\* How send_telegram_message can end (lines 133-147): RuntimeError when the token is
\* not configured; otherwise requests.post raises, or returns a response that is ok
\* or not ok.
SendOutcomes(token) ==
    IF ~Truthy(token) THEN {"no_token"} ELSE {"ok", "not_ok", "raised"}

\* The mutant of SendReturns: an exception of the send is swallowed and the loop goes on.
SendReturnsAlways(outcome) == TRUE

\* send_telegram_message returns (line 147) for a response of either kind.
SendReturns(outcome) == outcome \in {"ok", "not_ok"}

\* str(e) of the exception of a send that run_offers catches.
ErrorText(outcome) ==
    IF outcome = "no_token" THEN "TELEGRAM_BOT_TOKEN não definido" ELSE "request failed"

\* The JSONResponse of run_offers (lines 223, 226-229).
Ok200(sent, ts, early) ==
    [status |-> 200, ok |-> TRUE, sent |-> sent, titles |-> ts,
     message |-> IF early THEN "Nenhuma nova oferta encontrada." ELSE "",
     error |-> ""]

Err500(text) ==
    [status |-> 500, ok |-> FALSE, sent |-> 0, titles |-> <<>>, message |-> "",
     error |-> text]

NoResponse ==
    [status |-> 0, ok |-> FALSE, sent |-> 0, titles |-> <<>>, message |-> "", error |-> ""]

\* The ids of the log entries that got a response of the messaging API.
Delivered(l) == {l[i].id : i \in {j \in 1..Len(l) : l[j].outcome \in {"ok", "not_ok"}}}

\* The ids of the log entries whose response was not ok.
NotOk(l) == {l[i].id : i \in {j \in 1..Len(l) : l[j].outcome = "not_ok"}}

\* The mutant of AfterSelect: the early return is missing.
AfterSelectNoEarlyReturn(new, batch) == IF batch = <<>> THEN "Persisting" ELSE "Sending"

\* Lines 185-195: return early, or run the loop (which a batch of no item leaves at once).
AfterSelect(new, batch) ==
    IF new = <<>> THEN "Done"
    ELSE IF batch = <<>> THEN "Persisting" ELSE "Sending"

(***************************************************************************)
(* The state machine                                                       *)
(***************************************************************************)
Init ==
    /\ TELEGRAM_BOT_TOKEN \in TokenValues
    /\ OFFERS_PER_RUN \in BatchSizes
    /\ file = NoFile
    /\ pc = [p \in Workers |-> "Idle"]
    /\ sent_ids = [p \in Workers |-> {}]
    /\ all_items = [p \in Workers |-> <<>>]
    /\ offers = [p \in Workers |-> <<>>]
    /\ new_offers = [p \in Workers |-> <<>>]
    /\ to_send = [p \in Workers |-> <<>>]
    /\ titles = [p \in Workers |-> <<>>]
    /\ sent_count = [p \in Workers |-> 0]
    /\ opened = [p \in Workers |-> FALSE]
    /\ response = [p \in Workers |-> NoResponse]
    /\ loaded = [p \in Workers |-> {}]
    /\ fetched = [p \in Workers |-> <<>>]
    /\ queried = [p \in Workers |-> <<>>]
    /\ collect_error = [p \in Workers |-> ""]
    /\ log = [p \in Workers |-> <<>>]
    /\ path = [p \in Workers |-> <<"Idle">>]
    /\ writes = [p \in Workers |-> 0]
    /\ save_result = [p \in Workers |-> "none"]
    /\ file_at_start = [p \in Workers |-> NoFile]
    /\ runs = 0
    /\ overlapped = FALSE
    /\ raised = FALSE
    /\ swallowed = FALSE
    /\ sent_ever = {}
    /\ resent = {}
    /\ recorded = {}
    /\ aborted_sent = {}
    /\ nonok_before = {}

config == <<TELEGRAM_BOT_TOKEN, OFFERS_PER_RUN>>

\* The variables only CollectTraced writes.
traced == <<all_items, fetched, queried, collect_error>>

\* A worker is free before its first request and once it has answered one.
Free(p) == pc[p] \in {"Idle", "Done", "Failed"}

\* Worker p accepts a request to POST /run-offers (lines 219-222): a call of
\* run_once_logic begins, with locals of its own, and loads the sent ids (line 180).
\* An exception of load_sent_ids goes up to run_offers, which answers 500 (lines
\* 224-229): nothing is searched, sent or saved.
\* The workers are interchangeable: the request goes to the first one that is free.
Start(p) ==
    /\ Free(p)
    /\ \A q \in Workers : q < p => ~Free(q)
    /\ runs < MaxRuns
    /\ \E outcome \in LoadOutcomes(file) :
         IF load_sent_ids(file, outcome).error # ""
         THEN /\ sent_ids' = [sent_ids EXCEPT ![p] = {}]
              /\ loaded' = [loaded EXCEPT ![p] = {}]
              /\ pc' = [pc EXCEPT ![p] = "Failed"]
              /\ path' = [path EXCEPT ![p] = <<"Idle", "Loading", "Failed">>]
              /\ response' = [response EXCEPT ![p] =
                                Err500(load_sent_ids(file, outcome).error)]
              /\ raised' = TRUE
              /\ UNCHANGED swallowed
         ELSE /\ sent_ids' = [sent_ids EXCEPT ![p] = load_sent_ids(file, outcome).value]
              /\ loaded' = [loaded EXCEPT ![p] = load_sent_ids(file, outcome).value]
              /\ pc' = [pc EXCEPT ![p] = "Loading"]
              /\ path' = [path EXCEPT ![p] = <<"Idle", "Loading">>]
              /\ response' = [response EXCEPT ![p] = NoResponse]
              /\ swallowed' = (swallowed \/ outcome # "ok")
              /\ UNCHANGED raised
    /\ offers' = [offers EXCEPT ![p] = <<>>]
    /\ new_offers' = [new_offers EXCEPT ![p] = <<>>]
    /\ to_send' = [to_send EXCEPT ![p] = <<>>]
    /\ titles' = [titles EXCEPT ![p] = <<>>]
    /\ sent_count' = [sent_count EXCEPT ![p] = 0]
    /\ opened' = [opened EXCEPT ![p] = FALSE]
    /\ log' = [log EXCEPT ![p] = <<>>]
    /\ writes' = [writes EXCEPT ![p] = 0]
    /\ save_result' = [save_result EXCEPT ![p] = "none"]
    /\ file_at_start' = [file_at_start EXCEPT ![p] = file]
    /\ runs' = runs + 1
    /\ overlapped' = (overlapped \/ \E q \in Workers \ {p} : ~Free(q))
    /\ aborted_sent' = IF pc[p] = "Done" \/ overlapped' THEN {} ELSE aborted_sent
    /\ nonok_before' = IF overlapped' THEN {} ELSE nonok_before \cup NotOk(log[p])
    /\ UNCHANGED <<config, traced, file, sent_ever, resent, recorded>>

\* The same, behind a caller that waits for the running request to be answered.
StartSerial(p) ==
    /\ \A q \in Workers : Free(q)
    /\ Start(p)

\* Lines 181-193: offers = collect_best_offers(), one search per keyword; new_offers;
\* the early return; to_send.  An exception of collect_best_offers goes up to
\* run_offers, which answers 500 (lines 224-229).
CollectBestOffers(p) ==
    /\ pc[p] = "Loading"
    /\ \E c \in CollectOutcomes :
         LET offs == c.value
             new == NewOffers(offs, sent_ids[p])
             batch == IF new = <<>> THEN <<>> ELSE PySlice(new, OFFERS_PER_RUN)
             next == IF c.error # "" THEN "Failed" ELSE AfterSelect(new, batch)
         IN  /\ offers' = [offers EXCEPT ![p] = IF next = "Failed" THEN @ ELSE offs]
             /\ new_offers' = [new_offers EXCEPT ![p] = IF next = "Failed" THEN @ ELSE new]
             /\ to_send' = [to_send EXCEPT ![p] = IF next = "Failed" THEN @ ELSE batch]
             /\ pc' = [pc EXCEPT ![p] = next]
             /\ path' = [path EXCEPT ![p] = Append(@, next)]
             /\ response' = [response EXCEPT ![p] =
                               IF next = "Failed" THEN Err500(c.error)
                               ELSE IF next = "Done" THEN Ok200(0, <<>>, TRUE) ELSE @]
             /\ raised' = (raised \/ next = "Failed")
    /\ UNCHANGED <<config, traced, file, sent_ids, titles, sent_count, opened, loaded, log,
                   writes, save_result, file_at_start, runs, overlapped, swallowed,
                   sent_ever, resent, recorded, aborted_sent, nonok_before>>

\* One iteration of the loop of lines 195-202: build_message, then
\* send_telegram_message.  An exception of either goes up to run_offers.
SendItem(p) ==
    /\ pc[p] = "Sending"
    /\ LET item == to_send[p][sent_count[p] + 1]
       IN  IF BuildError(item) # ""
           THEN /\ pc' = [pc EXCEPT ![p] = "Failed"]
                /\ path' = [path EXCEPT ![p] = Append(@, "Failed")]
                /\ response' = [response EXCEPT ![p] = Err500(BuildError(item))]
                /\ raised' = TRUE
                /\ UNCHANGED <<log, titles, sent_ids, sent_count, sent_ever, resent,
                               aborted_sent>>
           ELSE \E outcome \in SendOutcomes(TELEGRAM_BOT_TOKEN) :
             /\ log' = [log EXCEPT ![p] = Append(@, [id |-> item.id, outcome |-> outcome])]
             /\ IF SendReturns(outcome)
                THEN /\ titles' = [titles EXCEPT ![p] = Append(@, item.title)]
                     /\ sent_ids' = [sent_ids EXCEPT ![p] = @ \cup {item.id}]
                     /\ sent_count' = [sent_count EXCEPT ![p] = @ + 1]
                     /\ sent_ever' = sent_ever \cup {item.id}
                     /\ resent' = resent \cup ({item.id} \cap sent_ever)
                     /\ LET next == IF sent_count[p] + 1 = Len(to_send[p])
                                    THEN "Persisting" ELSE "Sending"
                        IN  /\ pc' = [pc EXCEPT ![p] = next]
                            /\ path' = [path EXCEPT ![p] =
                                          IF next = "Sending" THEN @ ELSE Append(@, next)]
                     /\ UNCHANGED <<response, raised, aborted_sent>>
                ELSE /\ pc' = [pc EXCEPT ![p] = "Failed"]
                     /\ path' = [path EXCEPT ![p] = Append(@, "Failed")]
                     /\ response' = [response EXCEPT ![p] = Err500(ErrorText(outcome))]
                     /\ raised' = TRUE
                     /\ aborted_sent' = IF overlapped THEN {}
                                        ELSE aborted_sent \cup Delivered(log[p])
                     /\ UNCHANGED <<titles, sent_ids, sent_count, sent_ever, resent>>
    /\ UNCHANGED <<config, traced, file, offers, new_offers, to_send, opened, loaded, writes,
                   save_result, file_at_start, runs, overlapped, swallowed, recorded,
                   nonok_before>>

\* What the end of save_sent_ids and lines 205-211 do: the result is returned.
Returned(p, outcome) ==
    /\ save_result' = [save_result EXCEPT ![p] = outcome]
    /\ swallowed' = (swallowed \/ outcome # "ok")
    /\ writes' = [writes EXCEPT ![p] = @ + 1]
    /\ pc' = [pc EXCEPT ![p] = "Done"]
    /\ path' = [path EXCEPT ![p] = Append(@, "Done")]
    /\ response' = [response EXCEPT ![p] = Ok200(sent_count[p], titles[p], FALSE)]

\* Line 204, save_sent_ids up to line 56: the file is opened for writing, which
\* truncates it.  When open raises, save_sent_ids returns and so does the run.
SaveOpen(p) ==
    /\ pc[p] = "Persisting"
    /\ ~opened[p]
    /\ \E outcome \in OpenOutcomes :
         /\ file' = open_w(file, outcome)
         /\ IF outcome = "ok"
            THEN /\ opened' = [opened EXCEPT ![p] = TRUE]
                 /\ UNCHANGED <<save_result, swallowed, writes, pc, path, response>>
            ELSE /\ Returned(p, outcome)
                 /\ UNCHANGED opened
    /\ UNCHANGED <<config, traced, locals, loaded, log, file_at_start, runs,
                   overlapped, raised, sent_ever, resent, recorded, aborted_sent,
                   nonok_before>>

\* save_sent_ids from line 57 on, and lines 205-211: the ids are dumped, the file is
\* closed, and the result is returned.  Nothing keeps another request's open or dump
\* from running between this run's open and its dump.
SaveDump(p) ==
    /\ pc[p] = "Persisting"
    /\ opened[p]
    /\ \E outcome \in DumpOutcomes(JsonLen(sent_ids[p])) :
         /\ file' \in json_dump(file, sent_ids[p], outcome)
         /\ recorded' = IF outcome.result = "ok"
                         THEN recorded \cup Delivered(log[p]) ELSE recorded
         /\ Returned(p, outcome.result)
    /\ opened' = [opened EXCEPT ![p] = FALSE]
    /\ UNCHANGED <<config, traced, locals, loaded, log, file_at_start, runs,
                   overlapped, raised, sent_ever, resent, aborted_sent, nonok_before>>

Step(p) ==
    \/ CollectBestOffers(p)
    \/ SendItem(p)
    \/ SaveOpen(p)
    \/ SaveDump(p)

Next == \E p \in Workers : Start(p) \/ Step(p)

NextSerial == \E p \in Workers : StartSerial(p) \/ Step(p)

\* The program as deployed: requests may overlap.
Spec == Init /\ [][Next]_vars

\* The program behind a caller that serializes its requests.
SpecSerial == Init /\ [][NextSerial]_vars

(***************************************************************************)
(* collect_best_offers on its own, on every outcome of the searches        *)
(***************************************************************************)
MaxResults == 2

\* Every list of at most MaxResults raw items.
ResultLists == UNION {[1..n -> RawItems] : n \in 0..MaxResults}

AnyFetchOutcome ==
    {[ok |-> FALSE, results |-> None], [ok |-> TRUE, results |-> None]}
        \cup {[ok |-> TRUE, results |-> Some(r)] : r \in ResultLists}

InitCollect ==
    /\ Init
    /\ Truthy(TELEGRAM_BOT_TOKEN)
    /\ OFFERS_PER_RUN = 2

\* collect_best_offers (lines 94-130), keeping what each search returned: it returns
\* the ranked list, or raises.
CollectTraced(p) ==
    /\ pc[p] = "Idle"
    /\ fetched[p] = <<>>
    /\ \E outcome \in [1..Len(KEYWORDS) -> AnyFetchOutcome] :
         LET r == CollectFrom(1, <<>>, <<>>, outcome)
         IN  /\ all_items' = [all_items EXCEPT ![p] = r.all_items]
             /\ queried' = [queried EXCEPT ![p] = r.queried]
             /\ fetched' = [fetched EXCEPT ![p] = outcome]
             /\ collect_error' = [collect_error EXCEPT ![p] = r.error]
             /\ offers' = [offers EXCEPT ![p] =
                             IF r.error # "" THEN @ ELSE Ranked(r.all_items)]
    /\ UNCHANGED <<config, file, pc, sent_ids, new_offers, to_send, titles, sent_count,
                   opened, response, loaded, log, path, writes, save_result, file_at_start,
                   runs, overlapped, raised, swallowed, sent_ever, resent, recorded,
                   aborted_sent, nonok_before>>

NextCollect == CollectTraced(1)

SpecCollect == InitCollect /\ [][NextCollect]_vars

(***************************************************************************)
(* Properties                                                              *)
(***************************************************************************)
LogIds(l) == [i \in 1..Len(l) |-> l[i].id]

SeqIds(seq) == [i \in 1..Len(seq) |-> seq[i].id]

\* The elements of offs whose id is not in sent, in the order of offs, at most m of them.
RECURSIVE UnsentPrefix(_, _, _)
UnsentPrefix(offs, sent, m) ==
    IF offs = <<>> \/ m <= 0 THEN <<>>
    ELSE IF Head(offs).id \in sent
         THEN UnsentPrefix(Tail(offs), sent, m)
         ELSE <<Head(offs)>> \o UnsentPrefix(Tail(offs), sent, m - 1)

NumUnsent(offs, sent) == Cardinality({i \in 1..Len(offs) : offs[i].id \notin sent})

Finished(p) == pc[p] \in {"Done", "Failed"}

\* C1: a run never calls send_telegram_message for an offer whose id is in the set it
\* loaded, and never calls it twice for the same id.
C1_NeverSendsLoadedOrTwice ==
    \A p \in Workers :
        /\ \A i \in 1..Len(log[p]) : log[p][i].id \notin loaded[p]
        /\ \A i, j \in 1..Len(log[p]) : i # j => log[p][i].id # log[p][j].id

\* C1 witness: a completed run that loaded ids, collected offers with those ids among
\* them, and sent two other offers.
C1_Witness ==
    \E p \in Workers :
        /\ pc[p] = "Done"
        /\ loaded[p] \cap IdsOf(offers[p]) # {}
        /\ Len(log[p]) = 2

\* C2: the id set stored in the file after a run holds every id that was stored when
\* the run began, whatever the outcome of the reads and writes.  Behind a caller that
\* serializes the requests the file a run finds is the file the run before it left, so
\* this is, run by run, the claim that the set stored after a later run is a superset
\* of the set stored after any earlier run.  (The empty file between a save's open and
\* its dump is not the file after a run, and is not counted.)
C2_StoredIdsNeverShrink ==
    \A p \in Workers :
        Finished(p) => StoredIds(file_at_start[p]) \subseteq StoredIds(file)

\* C3 as stated, for B = OFFERS_PER_RUN >= 0: a run that completes sends the first
\* min(N, B) offers of the ranked list, N being the number of collected offers that
\* are not in the loaded set.
C3_FirstOfRankedList ==
    \A p \in Workers :
        (pc[p] = "Done" /\ OFFERS_PER_RUN >= 0) =>
            LET m == Min(NumUnsent(offers[p], loaded[p]), OFFERS_PER_RUN)
            IN  /\ LogIds(log[p]) = SeqIds(SubSeq(offers[p], 1, m))
                /\ response[p].sent = m
                /\ sent_ids[p] = loaded[p] \cup IdsOf(SubSeq(offers[p], 1, m))

\* C3 amended: with B = OFFERS_PER_RUN >= 0, a run that completes sends exactly
\* min(N, B) messages, for the first min(N, B) offers of the ranked list that are not
\* in the loaded set, in rank order; it reports that number as `sent`, and adds
\* exactly those ids to its sent-id set.
C3_FirstUnsentOfRankedList ==
    \A p \in Workers :
        (pc[p] = "Done" /\ OFFERS_PER_RUN >= 0) =>
            LET m == Min(NumUnsent(offers[p], loaded[p]), OFFERS_PER_RUN)
                batch == UnsentPrefix(offers[p], loaded[p], m)
            IN  /\ Len(log[p]) = m
                /\ LogIds(log[p]) = SeqIds(batch)
                /\ \A i \in 1..Len(log[p]) : log[p][i].outcome \in {"ok", "not_ok"}
                /\ response[p].sent = m
                /\ sent_count[p] = m
                /\ sent_ids[p] = loaded[p] \cup IdsOf(batch)

\* C3 witness: a completed run with more unsent offers than the batch size, whose
\* ranked list begins with an offer that was already sent.
C3_Witness ==
    \E p \in Workers :
        /\ pc[p] = "Done"
        /\ OFFERS_PER_RUN >= 1
        /\ NumUnsent(offers[p], loaded[p]) > OFFERS_PER_RUN
        /\ offers[p][1].id \in loaded[p]
        /\ Len(log[p]) = OFFERS_PER_RUN

\* C4 as stated: without a token every answered call of /run-offers is a 500 with
\* ok false and the error message.
C4_NoTokenAlways500 ==
    \A p \in Workers :
        (~Truthy(TELEGRAM_BOT_TOKEN) /\ Finished(p)) =>
            /\ response[p].status = 500
            /\ ~response[p].ok
            /\ response[p].error # ""

\* C4 amended: without a token, a call whose batch is not empty is answered 500 with
\* ok false and an error, and posts nothing; the error is the configuration error
\* whenever send_telegram_message is reached.  A call is answered ok true only when
\* its batch is empty, with sent 0: it finds no new offer and returns early, or
\* OFFERS_PER_RUN leaves none of the new offers in the batch and save_sent_ids is
\* called with the set that was loaded.
C4_NoToken500WhenSending ==
    \A p \in Workers :
        (~Truthy(TELEGRAM_BOT_TOKEN) /\ Finished(p)) =>
            /\ Delivered(log[p]) = {}
            /\ log[p] # <<>> =>
                 /\ Len(log[p]) = 1
                 /\ response[p] = Err500("TELEGRAM_BOT_TOKEN não definido")
            /\ to_send[p] # <<>> => pc[p] = "Failed"
            /\ pc[p] = "Failed" =>
                 /\ response[p].status = 500
                 /\ ~response[p].ok
                 /\ response[p].error # ""
            /\ pc[p] = "Done" =>
                 /\ to_send[p] = <<>>
                 /\ response[p].status = 200
                 /\ response[p].ok
                 /\ response[p].sent = 0
                 /\ log[p] = <<>>
                 /\ sent_ids[p] = loaded[p]
                 /\ new_offers[p] = <<>> =>
                      (writes[p] = 0 /\ response[p] = Ok200(0, <<>>, TRUE))
                 /\ new_offers[p] # <<>> =>
                      (writes[p] = 1 /\ response[p] = Ok200(0, <<>>, FALSE)
                          /\ PySlice(new_offers[p], OFFERS_PER_RUN) = <<>>)

\* C4 witness: without a token, a call reached send_telegram_message and was answered
\* 500 with the configuration error, and a call that found new offers, none of which
\* OFFERS_PER_RUN left in the batch, called save_sent_ids and was answered 200 with
\* ok true and sent 0.
C4_Witness ==
    /\ ~Truthy(TELEGRAM_BOT_TOKEN)
    /\ \E p \in Workers :
         /\ pc[p] = "Failed"
         /\ response[p] = Err500("TELEGRAM_BOT_TOKEN não definido")
         /\ to_send[p] # <<>>
         /\ Len(log[p]) = 1
    /\ \E q \in Workers :
         /\ pc[q] = "Done"
         /\ new_offers[q] # <<>>
         /\ to_send[q] = <<>>
         /\ writes[q] = 1
         /\ response[q] = Ok200(0, <<>>, FALSE)

\* The items of the searches that answered with a list.
OkItems(f) ==
    UNION {{Value(f[k].results)[i] : i \in 1..Len(Value(f[k].results))} :
             k \in {n \in 1..Len(f) : f[n].ok /\ ~IsNone(f[n].results)}}

\* C5: a search that fails never ends the collection.  The keywords are queried in list
\* order; after a keyword whose search failed the next one is queried; the loop stops
\* before the last keyword only at a keyword whose search succeeded (on an exception
\* of the processing of what it returned); and when collect_best_offers returns, every
\* keyword was queried and the offers of every search that succeeded are merged.
C5_FailedKeywordIsSkipped ==
    \A p \in Workers :
        fetched[p] # <<>> =>
            /\ queried[p] # <<>>
            /\ queried[p] = SubSeq(KEYWORDS, 1, Len(queried[p]))
            /\ \A k \in 1..Len(queried[p]) :
                 (~fetched[p][k].ok /\ k < Len(KEYWORDS)) => Len(queried[p]) > k
            /\ collect_error[p] # "" => fetched[p][Len(queried[p])].ok
            /\ collect_error[p] = "" =>
                 /\ queried[p] = KEYWORDS
                 /\ IdsOf(all_items[p]) = {it.id : it \in OkItems(fetched[p])} \ {""}
                 /\ \A i \in 1..Len(all_items[p]) :
                      \E it \in OkItems(fetched[p]) :
                         /\ it.id = all_items[p][i].id
                         /\ it.price = all_items[p][i].price

\* C5 witness: the first keyword's search failed, the second one's offers were merged
\* and collect_best_offers returned.
C5_Witness ==
    \E p \in Workers :
        /\ fetched[p] # <<>>
        /\ ~fetched[p][1].ok
        /\ fetched[p][2].ok
        /\ collect_error[p] = ""
        /\ Len(all_items[p]) >= 2

\* C6: the list collect_best_offers returns holds exactly the merged offers with
\* discount >= MIN_DISCOUNT_PERCENT, in descending order of (discount, sold_quantity).
C6_FilteredAndRanked ==
    \A p \in Workers :
        (fetched[p] # <<>> /\ collect_error[p] = "") =>
            LET all == all_items[p]
                offs == offers[p]
                kept == {i \in 1..Len(all) : all[i].discount >= MIN_DISCOUNT_PERCENT * 100}
            IN  /\ {offs[i] : i \in 1..Len(offs)} = {all[i] : i \in kept}
                /\ Len(offs) = Cardinality(kept)
                /\ \A i \in 1..Len(offs) - 1 :
                     \/ offs[i].discount > offs[i + 1].discount
                     \/ /\ offs[i].discount = offs[i + 1].discount
                        /\ offs[i].sold_quantity >= offs[i + 1].sold_quantity

\* C6 witness: three offers ranked, two of them tied on the discount, and an offer
\* below the threshold left out.
C6_Witness ==
    \E p \in Workers :
        /\ fetched[p] # <<>>
        /\ collect_error[p] = ""
        /\ Len(offers[p]) = 3
        /\ Len(all_items[p]) > 3
        /\ offers[p][2].discount = offers[p][3].discount
        /\ offers[p][2].sold_quantity > offers[p][3].sold_quantity

\* The run was ended by a send that raised.
SendAborted(p) ==
    /\ pc[p] = "Failed"
    /\ log[p] # <<>>
    /\ log[p][Len(log[p])].outcome \in {"raised", "no_token"}

\* What C7 says of the run that aborts: the send that raises is the last call made,
\* nothing is sent after it, the items before it were counted, the file is as it was
\* when the run began, and the answer is a 500.
AbortLeavesNoTrace(p) ==
    /\ \A i \in 1..Len(log[p]) :
         log[p][i].outcome \in {"raised", "no_token"} => (i = Len(log[p]) /\ pc[p] = "Failed")
    /\ SendAborted(p) =>
         /\ Len(log[p]) <= Len(to_send[p])
         /\ sent_count[p] = Len(log[p]) - 1
         /\ file = file_at_start[p]
         /\ writes[p] = 0
         /\ response[p].status = 500
         /\ ~response[p].ok

\* C7 as stated: a raised send aborts the run and leaves the file as it was, and the
\* next run that completes sends every offer the aborted run had sent, if it is
\* still collected.
C7_AbortThenResendIfCollected ==
    \A p \in Workers :
        /\ AbortLeavesNoTrace(p)
        /\ pc[p] = "Done" =>
             \A x \in aborted_sent : x \in IdsOf(offers[p]) => x \in Delivered(log[p])

\* C7 amended: a raised send aborts the run and leaves the file as it was, and the
\* next run that completes sends every offer the aborted run had sent that is among
\* the first OFFERS_PER_RUN collected offers not in the set it loaded.
C7_AbortThenResendIfInBatch ==
    \A p \in Workers :
        /\ AbortLeavesNoTrace(p)
        /\ pc[p] = "Done" =>
             \A x \in aborted_sent :
                x \in IdsOf(UnsentPrefix(offers[p], loaded[p], OFFERS_PER_RUN))
                    => x \in Delivered(log[p])

\* C7 witness: a run completed and sent again an offer that a run, which a raising
\* send aborted at its second item, had sent.
C7_Witness ==
    \E p \in Workers :
        /\ pc[p] = "Done"
        /\ aborted_sent \cap Delivered(log[p]) # {}
        /\ file_at_start[p].kind = "absent"

\* The two states of the race: an id sent twice; an id that a run sent and wrote to
\* the file, missing from the file as the writers left it (no save has it open).
SentTwice == resent # {}

LostUpdate ==
    /\ \A p \in Workers : ~opened[p]
    /\ ~(recorded \subseteq StoredIds(file))

\* C8 as stated, its second half, on the runs that no exception ends (every call is
\* answered 200): when the runs do not overlap, no id is sent twice and no recorded
\* id is missing from the file.
C8_SerialRunsNeverRepeatOrLose ==
    (~overlapped /\ ~raised) => (~SentTwice /\ ~LostUpdate)

\* C8 witness, its first half: two overlapping runs, with no exception raised or
\* swallowed, have both answered; an id was sent twice and the file lacks an id that
\* was recorded.
C8_Witness ==
    /\ overlapped
    /\ ~raised
    /\ ~swallowed
    /\ \A p \in Workers : pc[p] = "Done"
    /\ SentTwice
    /\ LostUpdate

\* What C9 says of the run that gets the response: it goes on, and counts and lists
\* the item and adds its id to its sent-id set.
NotOkIsTreatedAsSent(p) ==
    \A i \in 1..Len(log[p]) :
        log[p][i].outcome = "not_ok" =>
            /\ i <= sent_count[p]
            /\ titles[p][i] = to_send[p][i].title
            /\ log[p][i].id = to_send[p][i].id
            /\ log[p][i].id \in sent_ids[p]
            /\ (SendAborted(p) => Len(log[p]) > i)
            /\ (pc[p] = "Done" => /\ Len(log[p]) = Len(to_send[p])
                                  /\ response[p].sent = Len(to_send[p])
                                  /\ response[p].titles[i] = to_send[p][i].title)

\* C9 as stated: a response that is not ok does not stop the run, the item is counted
\* and listed, its id is in the persisted set once the run has completed, and no later
\* run sends it again.
C9_NotOkIsPersisted ==
    /\ \A p \in Workers :
         /\ NotOkIsTreatedAsSent(p)
         /\ pc[p] = "Done" =>
              \A i \in 1..Len(log[p]) :
                 log[p][i].outcome = "not_ok" => log[p][i].id \in StoredIds(file)
    /\ \A p \in Workers : IdsOf(log[p]) \cap nonok_before = {}

\* C9 witness: a run got a response that was not ok for its first item, sent the
\* second one, and wrote both ids to the file.
C9_Witness ==
    \E p \in Workers :
        /\ pc[p] = "Done"
        /\ Len(log[p]) = 2
        /\ log[p][1].outcome = "not_ok"
        /\ log[p][2].outcome = "ok"
        /\ save_result[p] = "ok"
        /\ log[p][1].id \in StoredIds(file)

FullPath == <<"Idle", "Loading", "Sending", "Persisting", "Done">>

\* C10 as stated: every run that reaches Done went Idle, Loading, Sending,
\* Persisting, Done, and wrote the file once.
C10_DoneMeansAllPhases ==
    \A p \in Workers :
        pc[p] = "Done" => (path[p] = FullPath /\ writes[p] = 1)

EmptyBatchPath == <<"Idle", "Loading", "Persisting", "Done">>

EarlyPath == <<"Idle", "Loading", "Done">>

\* C10 amended: a run that reaches Done with a batch to send went Idle, Loading,
\* Sending, Persisting, Done and called save_sent_ids once, after the last send; a
\* run that finds new offers of which OFFERS_PER_RUN leaves none in the batch goes
\* Idle, Loading, Persisting, Done: it calls save_sent_ids once and sends nothing; a
\* run that finds no new offer goes Idle, Loading, Done and writes nothing.  No run
\* sends after its write.
C10_DonePhases ==
    \A p \in Workers :
        /\ pc[p] = "Done" =>
             \/ /\ to_send[p] # <<>>
                /\ path[p] = FullPath
                /\ writes[p] = 1
                /\ Len(log[p]) = Len(to_send[p])
             \/ /\ new_offers[p] # <<>>
                /\ to_send[p] = <<>>
                /\ path[p] = EmptyBatchPath
                /\ writes[p] = 1
                /\ log[p] = <<>>
             \/ /\ new_offers[p] = <<>>
                /\ path[p] = EarlyPath
                /\ writes[p] = 0
                /\ log[p] = <<>>
        /\ writes[p] <= 1
        /\ writes[p] = 1 => pc[p] = "Done"
        /\ path[p][Len(path[p])] = pc[p]

\* C10 witness: a run went through all five phases, sent its batch and wrote once,
\* and a run that found new offers, none of them in its batch, went from Loading to
\* Persisting and wrote once.
C10_Witness ==
    /\ \E p \in Workers :
         /\ pc[p] = "Done"
         /\ path[p] = FullPath
         /\ log[p] # <<>>
         /\ Len(log[p]) = Len(to_send[p])
         /\ writes[p] = 1
    /\ \E q \in Workers :
         /\ pc[q] = "Done"
         /\ path[q] = EmptyBatchPath
         /\ new_offers[q] # <<>>
         /\ log[q] = <<>>
         /\ writes[q] = 1

====
